---- MODULE Spec2Model ----
(***************************************************************************)
(* Model of the Tellusim BlueNoise generator (BlueNoise.h, BlueNoise.cpp,  *)
(* main.cpp and the BlueNoise.shader compute kernels).                     *)
(*                                                                         *)
(* The generator object is driven through its public interface: create,   *)
(* dispatch and dispatchForward.  One call of dispatch is a long loop of   *)
(* greedy steps (dispatch_kernel); every step is one action.  The Fourier  *)
(* transform is an external primitive: a step's energy field is the exact  *)
(* circular convolution of the padded pattern with the kernel image, in    *)
(* integers.  Textures hold 0.0 / 1.0, written here 0 / 1.                 *)
(*                                                                         *)
(* The three size constants of BlueNoise.h are scaled down (MinSize 64 ->  *)
(* 8, SampleGroupSize 16 -> 4, PositionGroupSize 256 -> 16).  As in the    *)
(* source, the padded image is a whole number of tiles, it can be more     *)
(* than three times as wide as the image, and the smallest padded image    *)
(* has fewer tiles than the global reduction has threads.                  *)
(***************************************************************************)
EXTENDS Integers, Sequences, FiniteSets, TLC

\* ---------------------------------------------------------------- bounds
MaxPixels == 4          \* images have at most this many pixels
MaxLayers == 2          \* dispatch is asked for at most this many layers
MaxBatch == 3           \* the driver flushes after at most this many steps

\* ------------------------------------------------------ program constants
MinSize == 8            \* BlueNoise.h MinSize (64, scaled)
SampleGroupSize == 4    \* BlueNoise.h SampleGroupSize (16, scaled)
PositionGroupSize == 16 \* BlueNoise.h PositionGroupSize (256, scaled)
NegInf == -1000000000   \* the shaders' -1e9f
Unset == -1             \* a texel of a 0.0 / 1.0 texture that nobody has written
Maxu32 == -1            \* the no-rank marker ~0u, as a 32-bit int
KernelScale == 64       \* fixed point unit of the kernel weights

Null == "null"
\* a buffer slot or a rendered texel that nobody has written
Undef == << >>
\* a texture, or the size of a texture, that does not exist
NoSize == << 0, 0 >>
NoTexture == [size |-> NoSize, kernel |-> NoSize]
\* the candidate slot of a position buffer no search has written
NoCandidate == [pos |-> << -1, -1 >>, weight |-> 0]
\* no pattern and energies handed to the search kernels directly
NoInput == [kind |-> Null, size |-> NoSize, pattern |-> << >>, energy |-> << >>]
\* no kernel image being filled
NoKernel == [size |-> NoSize, stage |-> "off", y0 |-> 0, x0 |-> 0,
             distance |-> << >>, sets |-> << >>, scaled |-> {}]
\* no dispatch followed command by command
NoRun == [size |-> NoSize, created |-> NoSize, positions |-> 0, layers |-> 0,
          batch |-> 0]
NoLoop == [phase |-> "off", l |-> 0, i |-> 0, end |-> 0, open |-> FALSE, call |-> 0,
           stage |-> 0]

\* ------------------------------------------------------------------ state
VARIABLES
    modulo,               \* what % gives for a negative operand in this build
    transform_fails,      \* the device no longer executes transform.dispatch
    transform,            \* member transform: Null or "created"
    kernels,              \* the nine kernel members: Null or "created"
    buffers,              \* sequence_buffer and position_buffer: Null or "created"
    convolution_texture,  \* member: its size and the kernel it holds
    backward_texture,     \* member: its size
    sequence_buffer,      \* member: rank slot -> recorded position
    position_buffer,      \* member: slot 0, the candidate the last search left
    search_input,         \* a padded pattern and energies to run the search kernels on
    kernel_loop,          \* dispatch's kernel_image while the generation loop fills it
    run_input,            \* the arguments of a dispatch followed command by command
    loop,                 \*   where its phase loops stand: phase, l, i, end, stage
    issued,               \*   the dispatch_kernel calls of the phase so far
    recorded,             \*   the stages the current dispatch_kernel has recorded
    unsynced,             \*   resources written since the last barrier on them
    inflight,             \*   resources written since the last device.finish
    hazards,              \*   history: reads of a resource that was not synced
    accesses,             \*   history: who read and who wrote which resource
    kernel_writes,        \*   history: commands that wrote convolution_texture
    create_result,        \* what create returned: Null, "true" or "false"
    pc,                   \* where the caller / the running dispatch stands
    result,               \* what the last dispatch or dispatchForward returned
    image_size,           \* dispatch locals: width, height
    num_layers,           \*   layers
    num_positions,        \*   on pixels of the seed
    noise_texture,        \*   noise_texture
    copy_texture,         \*   copy_texture
    layer_texture,        \*   layer_texture
    noise_image,          \*   noise_image
    layer,                \*   l
    step,                 \*   i
    work,                 \* history: what the last call created or dispatched
    slot_writes,          \* history: per rank slot, the phases that wrote it in this layer
    empty_search,         \* history: a search of this run had no eligible pixel
    step_failed,          \* history: a dispatch_kernel of this run returned false
    step_called,          \* history: dispatch_kernel was called in this run
    last_call,            \* history: the last call and whether its sizes were valid
    render_writes,        \* history: per pixel, the stores of the last render
    ref_noise,            \* second run, same inputs, threads in ascending order:
    ref_copy,             \*   its noise_texture, copy_texture,
    ref_layer,            \*   layer_texture
    ref_sequence          \*   and sequence_buffer

\* ---------------------------------------------------------- arithmetic
RECURSIVE npotFrom(_, _)
npotFrom(p, x) == IF p >= x THEN p ELSE npotFrom(2 * p, x)

\* next power of two not below x
npot(x) == npotFrom(1, x)

\* x is a power of two
ispot(x) == x >= 1 /\ npot(x) = x

udiv(a, b) == (a + b - 1) \div b

max(a, b) == IF a > b THEN a ELSE b

min(a, b) == IF a < b THEN a ELSE b

RECURSIVE Pow2(_)
Pow2(n) == IF n = 0 THEN 1 ELSE 2 * Pow2(n - 1)

\* a texture or buffer held in memory: the function with every value computed
Stored(f) == f @@ << >>

\* F applied to the value of e: e is computed first, then F runs on it
Then(e, F(_)) == CHOOSE r \in { F(s) : s \in {e} } : TRUE

\* the pixel positions of a w x h texture
Pos(w, h) == (0 .. w - 1) \X (0 .. h - 1)

\* a % m on GLSL ints with m > 0: for a negative a the language leaves the
\* result open; the two results builds produce are the truncated and the
\* floored remainder
Mod(a, m, sem) ==
    IF a >= 0 THEN a % m
    ELSE IF sem = "floor" THEN a % m
    ELSE -((-a) % m)

ModSems == {"floor", "trunc"}

\* ------------------------------------------------------------- resizer
\* one coordinate of the position remap of the upscale and update shaders
Remap1(p, big, small, sem) ==
    LET offset == (big - small) \div 2
        q == IF p < offset THEN p + small ELSE p
    IN  Mod(q - offset, small, sem)

Remap(g, bigSize, smallSize, sem) ==
    << Remap1(g[1], bigSize[1], smallSize[1], sem),
       Remap1(g[2], bigSize[2], smallSize[2], sem) >>

InTexture(p, size) ==
    /\ p[1] >= 0 /\ p[1] < size[1]
    /\ p[2] >= 0 /\ p[2] < size[2]

\* texelFetch: a fetch outside the texture returns 0
Fetch(tex, p, size) == IF InTexture(p, size) THEN tex[p] ELSE 0

\* imageStore: a store outside the image is discarded
Store(tex, p, size, v) ==
    IF InTexture(p, size) THEN [tex EXCEPT ![p] = v] ELSE tex

PaddedSize(size) ==
    << max(npot(size[1]), MinSize), max(npot(size[2]), MinSize) >>

\* UPSCALE_SHADER: the padded image a step works on
Upscale(tex, size, padded, sem) ==
    Stored([g \in Pos(padded[1], padded[2]) |->
        Fetch(tex, Remap(g, padded, size, sem), size)])

\* -------------------------------------------------------- energy kernel
\* the distance the kernel loop uses for one coordinate: x0 for the low
\* half, x0 + 1 for the mirrored cell x1 = size - 1 - x0
KernelDist(x, size) ==
    IF x < size \div 2 THEN x ELSE (size - 1 - x) + 1

\* k = exp(-d * isigma) + epsilon / (1 + d) in fixed point, the exponential
\* to base 2; the rescale by iweight > 0 keeps the order of the weights
KernelWeight(d, sigma, epsilon) ==
    (KernelScale \div Pow2(min(d \div (sigma * sigma), 16)))
        + ((epsilon * KernelScale) \div (1 + d))

\* kernel_image as the generation loop fills it
KernelImage(padded, sigma, epsilon) ==
    Stored([c \in Pos(padded[1], padded[2]) |->
        LET dx == KernelDist(c[1], padded[1])
            dy == KernelDist(c[2], padded[2])
        IN  KernelWeight(dx * dx + dy * dy, sigma, epsilon)])

\* the inputs sigma and epsilon of dispatch
KernelParams == { <<1, 0>>, <<2, 1>> }

\* the image sizes dispatch accepts, within the bound
Sizes == { s \in (1 .. MaxPixels) \X (1 .. MaxPixels) : s[1] * s[2] <= MaxPixels }

\* the sum of f over the integers a .. b
RECURSIVE SumRange(_, _, _)
SumRange(f(_), a, b) == IF a > b THEN 0 ELSE f(a) + SumRange(f, a + 1, b)

\* forward transform, filter pass, backward transform: the circular
\* convolution of the padded pattern with the kernel image.  Response gives
\* the energy one lit logical pixel p adds at the padded pixel g, summed
\* over the padded pixels the upscale fills from p.
Response ==
    Stored([size \in Sizes |-> Stored([kp \in KernelParams |-> Stored([sem \in ModSems |->
        LET padded == PaddedSize(size)
            K == KernelImage(padded, kp[1], kp[2])
            src == Stored([h \in Pos(padded[1], padded[2]) |-> Remap(h, padded, size, sem)])
            Term(g, p, hx, hy) ==
                IF src[<<hx, hy>>] = p
                THEN K[<<(g[1] - hx) % padded[1], (g[2] - hy) % padded[2]>>]
                ELSE 0
            Row(g, p, hy) ==
                LET T(hx) == Term(g, p, hx, hy) IN SumRange(T, 0, padded[1] - 1)
        IN  Stored([p \in Pos(size[1], size[2]) |->
                Stored([g \in Pos(padded[1], padded[2]) |->
                    LET R(hy) == Row(g, p, hy) IN SumRange(R, 0, padded[2] - 1)])])])])])

RECURSIVE SumOver(_, _, _)
SumOver(S, resp, g) ==
    IF S = {} THEN 0
    ELSE LET p == CHOOSE p \in S : TRUE
         IN  resp[p][g] + SumOver(S \ {p}, resp, g)

\* backward_texture of a step on the logical pattern tex
Energy(tex, size, kp, sem) ==
    LET padded == PaddedSize(size)
        on == { p \in Pos(size[1], size[2]) : tex[p] = 1 }
        resp == Response[size][kp][sem]
    IN  Stored([g \in Pos(padded[1], padded[2]) |-> SumOver(on, resp, g)])

\* ------------------------------------------------------ thread schedules
\* the order in which the threads of a group run between two barriers
Schedules == {"asc", "desc"}

ThreadOrder(n, sched) ==
    [k \in 1 .. n |-> IF sched = "asc" THEN k - 1 ELSE n - k]

\* ReduceIndex without the doubling of the invocation index
ReduceIndexPacked(offset, t) == offset * t

\* uint index = offset * local_id_2, with local_id_2 = local_id << 1
ReduceIndex(offset, t) == offset * (2 * t)

\* the cells of the shared arrays weights and positions the thread t reads and
\* the cells it may write in the round of this offset
ReduceReads(n, offset, t) ==
    IF ReduceIndex(offset, t) + offset < n
    THEN { ReduceIndex(offset, t), ReduceIndex(offset, t) + offset }
    ELSE {}

ReduceWrites(n, offset, t) ==
    IF ReduceIndex(offset, t) + offset < n THEN { ReduceIndex(offset, t) } ELSE {}

\* the offsets of the rounds: for(offset = 1; offset < n; offset <<= 1)
RECURSIVE ReduceOffsets(_, _)
ReduceOffsets(n, offset) ==
    IF offset >= n THEN {} ELSE { offset } \cup ReduceOffsets(n, 2 * offset)

\* ReduceThread keeping the later of two cells of equal weight
ReduceThreadLast(st, n, offset, t) ==
    LET index == ReduceIndex(offset, t)
    IN  IF index + offset < n
        THEN LET weight == st.w[index + offset]
             IN  IF st.w[index] <= weight
                 THEN [w |-> [st.w EXCEPT ![index] = weight],
                       p |-> [st.p EXCEPT ![index] = st.p[index + offset]]]
                 ELSE st
        ELSE st

\* one thread in one round of the shared-memory tree reduction
ReduceThread(st, n, offset, t) ==
    LET index == ReduceIndex(offset, t)
    IN  IF index + offset < n
        THEN LET weight == st.w[index + offset]
             IN  IF st.w[index] < weight
                 THEN [w |-> [st.w EXCEPT ![index] = weight],
                       p |-> [st.p EXCEPT ![index] = st.p[index + offset]]]
                 ELSE st
        ELSE st

\* the threads whose branch index + offset < n is taken, in schedule order
ActiveThreads(n, offset, sched) ==
    SelectSeq(ThreadOrder(n, sched), LAMBDA t : ReduceIndex(offset, t) + offset < n)

RECURSIVE ReduceRound(_, _, _, _, _)
ReduceRound(st, n, offset, order, k) ==
    IF k > Len(order) THEN st
    ELSE Then(ReduceThread(st, n, offset, order[k]),
              LAMBDA s : ReduceRound(s, n, offset, order, k + 1))

\* for(offset = 1; offset < n; offset <<= 1) { round; barrier }
RECURSIVE TreeReduce(_, _, _, _)
TreeReduce(st, n, offset, sched) ==
    IF offset >= n THEN st
    ELSE Then(ReduceRound(st, n, offset, ActiveThreads(n, offset, sched), 1),
              LAMBDA s : TreeReduce(s, n, 2 * offset, sched))

\* ------------------------------------------------------ extremal search
\* SampleWeight with the sign of the energy exchanged between the two kernels
SampleWeightExchanged(kind, value, energy) ==
    IF kind = "min"
    THEN (IF 2 * value > 1 THEN NegInf ELSE energy)
    ELSE (IF 2 * value < 1 THEN NegInf ELSE -energy)

\* MIN_SAMPLE_SHADER / MAX_SAMPLE_SHADER: the weight of one pixel
SampleWeight(kind, value, energy) ==
    IF kind = "min"
    THEN (IF 2 * value > 1 THEN NegInf ELSE -energy)
    ELSE (IF 2 * value < 1 THEN NegInf ELSE energy)

\* a pixel the search of this kind may select
Eligible(kind, value) ==
    IF kind = "min" THEN ~(2 * value > 1) ELSE ~(2 * value < 1)

\* the sample shader in the work group (gx, gy)
SampleTile(kind, U, E, gx, gy, sched) ==
    LET G == SampleGroupSize
        n == G * G
        gid(lid) == << gx * G + (lid % G), gy * G + (lid \div G) >>
        st0 == [w |-> Stored([lid \in 0 .. n - 1 |->
                            SampleWeight(kind, U[gid(lid)], E[gid(lid)])]),
                p |-> Stored([lid \in 0 .. n - 1 |-> gid(lid)])]
        st == TreeReduce(st0, n, 1, sched)
    IN  [pos |-> st.p[0], weight |-> st.w[0]]

\* position_buffer after the sample kernel
SampleStage(kind, U, E, padded, sched) ==
    LET num_groups == udiv(padded[1], SampleGroupSize)
        rows == udiv(padded[2], SampleGroupSize)
    IN  Stored([index \in 0 .. num_groups * rows - 1 |->
            SampleTile(kind, U, E, index % num_groups, index \div num_groups, sched)])

\* the first loop of POSITION_SHADER in the thread local_id
RECURSIVE PositionScan(_, _, _, _, _, _)
PositionScan(buf, count, local_id, i, steps, acc) ==
    IF i >= steps THEN acc
    ELSE LET index == PositionGroupSize * i + local_id
             nxt == IF index < count /\ acc.weight < buf[index].weight
                    THEN buf[index] ELSE acc
         IN  PositionScan(buf, count, local_id, i + 1, steps, nxt)

\* PositionStage with the number of scan steps rounded down
PositionStageShort(buf, count, sched) ==
    LET n == PositionGroupSize
        steps == count \div n
        scan == Stored([lid \in 0 .. n - 1 |->
                    PositionScan(buf, count, lid, 0, steps,
                                 [pos |-> <<0, 0>>, weight |-> NegInf])])
        st0 == [w |-> Stored([lid \in 0 .. n - 1 |-> scan[lid].weight]),
                p |-> Stored([lid \in 0 .. n - 1 |-> scan[lid].pos])]
        st == TreeReduce(st0, n, 1, sched)
    IN  [pos |-> st.p[0], weight |-> st.w[0]]

\* POSITION_SHADER: position_buffer[0] after the global reduction
PositionStage(buf, count, sched) ==
    LET n == PositionGroupSize
        steps == udiv(count, n)
        scan == Stored([lid \in 0 .. n - 1 |->
                    PositionScan(buf, count, lid, 0, steps,
                                 [pos |-> <<0, 0>>, weight |-> NegInf])])
        st0 == [w |-> Stored([lid \in 0 .. n - 1 |-> scan[lid].weight]),
                p |-> Stored([lid \in 0 .. n - 1 |-> scan[lid].pos])]
        st == TreeReduce(st0, n, 1, sched)
    IN  [pos |-> st.p[0], weight |-> st.w[0]]

\* the winner of one search on the logical pattern tex, in padded coordinates
Search(kind, tex, size, kp, sem, sched) ==
    LET padded == PaddedSize(size)
        U == Upscale(tex, size, padded, sem)
        E == Energy(tex, size, kp, sem)
        buf == SampleStage(kind, U, E, padded, sched)
    IN  PositionStage(buf, Cardinality(DOMAIN buf), sched)

\* the patterns a texture of the given size can hold
Patterns(size) == [Pos(size[1], size[2]) -> { 0, 1 }]

Kinds == { "min", "max" }

\* Search, computed once for every pattern the bounds allow
Winners ==
    Stored([size \in Sizes |-> Stored([kp \in KernelParams |->
        Stored([sem \in ModSems |-> Stored([kind \in Kinds |->
            Stored([sched \in Schedules |-> Stored([tex \in Patterns(size) |->
                Search(kind, tex, size, kp, sem, sched)])])])])])])

\* UPDATE_SHADER: the logical position the winner is written to
UpdatePosition(winner, size, sem) == Remap(winner.pos, PaddedSize(size), size, sem)

\* --------------------------------------------------------- the kernels
\* every member create builds is there
GpuReady == kernels # Null /\ buffers # Null

\* a pattern has a pixel the search may select
HasEligible(kind, tex) == \E p \in DOMAIN tex : Eligible(kind, tex[p])

NumOn(tex) == Cardinality({ p \in DOMAIN tex : tex[p] = 1 })

\* dispatch_kernel: one greedy step on texture tex with the min ("min") or max
\* ("max") sample kernel.  A failing transform returns false before anything is
\* written; the work of a generator with a missing kernel or buffer is dropped.
dispatch_kernel(tex, seq, size, kind, value, index, sched) ==
    IF transform_fails
    THEN [ok |-> FALSE, texture |-> tex, sequence |-> seq, candidate |-> position_buffer]
    ELSE IF ~GpuReady
    THEN [ok |-> TRUE, texture |-> tex, sequence |-> seq, candidate |-> position_buffer]
    ELSE Then(Winners[size][convolution_texture.kernel][modulo][kind][sched][tex],
              LAMBDA winner :
                Then(UpdatePosition(winner, size, modulo),
                     LAMBDA position :
                        [ok |-> TRUE,
                         texture |-> Store(tex, position, size, value),
                         sequence |-> IF index # Maxu32
                                      THEN [seq EXCEPT ![index] = position]
                                      ELSE seq,
                         candidate |-> winner]))

\* the step changed the texture and the buffer
Applied(r) == r.ok /\ GpuReady

\* INVERSE_SHADER
InverseKernel(tex) == [p \in DOMAIN tex |-> 1 - tex[p]]

\* contents of memory nobody wrote: one of these
UninitPositions == { <<0, 0>>, <<-1, -1>> }
UninitValues == { <<0, 1>>, <<1, 1>> }
RefPosition == <<0, 0>>
RefValue == <<0, 1>>

SlotPosition(seq, index, fill) == IF seq[index] = Undef THEN fill ELSE seq[index]

\* RENDER_SHADER: invocation index stores float(index) / float(width * height - 1),
\* held as numerator and denominator, at the position recorded in slot index
RenderValue(index, size) == << index, size[1] * size[2] - 1 >>

RECURSIVE RenderStores(_, _, _, _, _, _)
RenderStores(tex, seq, size, order, k, fill) ==
    IF k > Len(order) THEN tex
    ELSE RenderStores(Store(tex, SlotPosition(seq, order[k], fill), size,
                            RenderValue(order[k], size)),
                      seq, size, order, k + 1, fill)

RenderKernel(tex, seq, size, sched, fill) ==
    RenderStores(tex, seq, size, ThreadOrder(size[1] * size[2], sched), 1, fill)

\* how many invocations of the render kernel store to pixel p
RenderCount(seq, size, fill) ==
    [p \in Pos(size[1], size[2]) |->
        Cardinality({ index \in 0 .. size[1] * size[2] - 1 :
                        SlotPosition(seq, index, fill) = p })]

\* dispatch's threshold for the next layer: (float)num_positions / (float)num_pixels
LayerThreshold(positions, pixels) == << positions, pixels >>

\* LayerValue with the comparison turned round
LayerValueReversed(texel, threshold) ==
    IF texel[2] = 0 THEN 0
    ELSE IF (texel[2] - texel[1]) * threshold[2] > threshold[1] * texel[2] THEN 1 ELSE 0

\* LAYER_SHADER: 1.0 - texel < threshold; 0/0 is not a number and compares false
LayerValue(texel, threshold) ==
    IF texel[2] = 0 THEN 0
    ELSE IF (texel[2] - texel[1]) * threshold[2] < threshold[1] * texel[2] THEN 1 ELSE 0

LayerKernel(tex, size, threshold, fill) ==
    [gid \in Pos(size[1], size[2]) |->
        LET src == << size[1] - gid[1] - 1, size[2] - gid[2] - 1 >>
        IN  LayerValue(IF tex[src] = Undef THEN fill ELSE tex[src], threshold)]

\* ---------------------------------------------------------- the machine
vars == << modulo, transform_fails, transform, kernels, buffers, convolution_texture,
           backward_texture, sequence_buffer, position_buffer, search_input,
           kernel_loop, run_input, loop, issued, recorded, unsynced, inflight,
           hazards, accesses, kernel_writes,
           create_result, pc, result, image_size,
           num_layers, num_positions, noise_texture, copy_texture, layer_texture,
           noise_image, layer, step, work, slot_writes, empty_search, step_failed,
           step_called, last_call, render_writes, ref_noise, ref_copy, ref_layer,
           ref_sequence >>

environment == << modulo, transform_fails >>
\* the command stream of a dispatch
driver == << run_input, loop, issued, recorded, unsynced, inflight, hazards, accesses,
             kernel_writes >>
\* the parts of dispatch that are followed on their own
parts == << search_input, kernel_loop, driver >>
created == << transform, kernels, buffers, create_result >>
members == << transform, kernels, buffers, convolution_texture, backward_texture,
              sequence_buffer, position_buffer >>
arguments == << image_size, num_layers, num_positions >>
locals == << image_size, num_layers, num_positions, noise_texture, copy_texture,
             layer_texture, noise_image, layer, step >>
history == << slot_writes, empty_search, step_failed, step_called, render_writes >>
reference == << ref_noise, ref_copy, ref_layer, ref_sequence >>

NumPixels == image_size[1] * image_size[2]
HalfPixels == NumPixels \div 2

\* no dispatch has been called yet
Uncalled ==
    /\ transform_fails = FALSE
    /\ convolution_texture = NoTexture /\ backward_texture = NoSize
    /\ position_buffer = NoCandidate
    /\ result = Null
    /\ image_size = << 0, 0 >> /\ num_layers = 0 /\ num_positions = 0
    /\ noise_texture = << >> /\ copy_texture = << >> /\ layer_texture = << >>
    /\ noise_image = << >>
    /\ layer = 0 /\ step = 0
    /\ work = {} /\ slot_writes = << >> /\ empty_search = FALSE
    /\ step_failed = FALSE /\ step_called = FALSE /\ last_call = Null
    /\ render_writes = << >>
    /\ ref_noise = << >> /\ ref_copy = << >> /\ ref_layer = << >>
    /\ ref_sequence = << >>

\* the generator after construction
Constructed ==
    /\ modulo \in ModSems
    /\ transform = Null /\ kernels = Null /\ buffers = Null
    /\ sequence_buffer = << >>
    /\ create_result = Null
    /\ pc = "new"
    /\ Uncalled

\* no command stream is followed
Undriven ==
    /\ run_input = NoRun /\ loop = NoLoop
    /\ issued = << >> /\ recorded = << >>
    /\ unsynced = {} /\ inflight = {} /\ hazards = {} /\ accesses = {}
    /\ kernel_writes = 0

Init == Constructed /\ search_input = NoInput /\ kernel_loop = NoKernel /\ Undriven

\* where create can stop
CreateFailures == { "none", "transform", "kernel", "buffer" }

\* BlueNoise::create: the transform, then the kernels, then the two buffers; the
\* first creation that fails makes it return false, leaving what was built so far
create(failure) ==
    /\ pc = "new"
    /\ transform' = IF failure = "transform" THEN Null ELSE "created"
    /\ kernels' = IF failure \in { "transform", "kernel" } THEN Null ELSE "created"
    /\ buffers' = IF failure = "none" THEN "created" ELSE Null
    /\ sequence_buffer' = IF failure = "none" THEN [k \in 0 .. MaxPixels - 1 |-> Undef]
                          ELSE << >>
    /\ create_result' = IF failure = "none" THEN "true" ELSE "false"
    /\ pc' = "idle"
    /\ UNCHANGED << environment, parts, convolution_texture, backward_texture,
                    position_buffer, result, locals, work, history, last_call,
                    reference >>

\* the device is lost: from now on no transform executes
TransformFails ==
    /\ pc \notin { "new", "done" }
    /\ ~transform_fails
    /\ transform_fails' = TRUE
    /\ UNCHANGED << modulo, parts, members, create_result, pc, result, locals,
                    work, history, last_call, reference >>

\* InvalidSize without the test of the layer count
InvalidSizeOfImage(width, height, layers) == width < 1 \/ height < 1

\* InvalidSize with a test against the minimum working size
InvalidSizeBelowMin(width, height, layers) ==
    width < MinSize \/ height < MinSize \/ layers < 1

\* dispatch's size check
InvalidSize(width, height, layers) == width < 1 \/ height < 1 \/ layers < 1

\* pixel values of an input image, in halves: 0.0, 0.5, 1.0
PixelValues == { 0, 1, 2 }

\* dispatch's seed: pixel.f.r > 0.5f
SeedValue(pixel) == IF pixel > 1 THEN 1 ELSE 0

\* sizes dispatch is called with
CallSizes == Sizes \cup { << 0, 0 >>, << 0, 1 >>, << 1, 0 >> }

\* the caller is between two calls
Calling == pc \in { "idle", "done" }

\* BlueNoise::dispatch up to its first greedy step: the size check, the seed and
\* its on-pixel count, the images and textures, the kernel's transform.  As in
\* main, a generator generates once; any further call is one the size check ends.
dispatch(size, layers, kp) ==
    /\ pc = "idle" \/ (pc = "done" /\ InvalidSize(size[1], size[2], layers))
    /\ last_call' = IF size[1] = 0 \/ size[2] = 0 \/ layers = 0
                    THEN "dispatch_invalid" ELSE "dispatch"
    /\ IF InvalidSize(size[1], size[2], layers)
       THEN /\ result' = "empty"
            /\ work' = {}
            /\ UNCHANGED << environment, parts, members, create_result, pc,
                            locals, history, reference >>
       ELSE \E pixels \in [Pos(size[1], size[2]) -> PixelValues] :
            LET padded == PaddedSize(size)
                seed == [p \in Pos(size[1], size[2]) |-> SeedValue(pixels[p])]
                blank == [p \in Pos(size[1], size[2]) |-> Undef]
                unset == [p \in Pos(size[1], size[2]) |-> Unset]
            IN  /\ convolution_texture' =
                       [size |-> << padded[1] \div 2 + 1, padded[2] >>, kernel |-> kp]
                /\ IF transform = Null \/ transform_fails
                   THEN /\ result' = "empty"
                        /\ pc' = "done"
                        /\ work' = { "texture" }
                        /\ UNCHANGED << environment, parts, created,
                                        backward_texture, sequence_buffer,
                                        position_buffer, locals, history, reference >>
                   ELSE /\ backward_texture' = padded
                        /\ image_size' = size
                        /\ num_layers' = layers
                        /\ num_positions' = NumOn(seed)
                        /\ noise_texture' = seed
                        /\ copy_texture' = unset
                        /\ layer_texture' = blank
                        /\ noise_image' = [k \in 0 .. layers - 1 |-> Undef]
                        /\ layer' = 0
                        /\ step' = 0
                        /\ pc' = IF 0 < NumOn(seed) THEN "phase0_min" ELSE "copy"
                        /\ result' = Null
                        /\ work' = { "texture", "transform" }
                        /\ slot_writes' = [k \in 0 .. size[1] * size[2] - 1 |-> << >>]
                        /\ empty_search' = FALSE
                        /\ step_failed' = FALSE
                        /\ step_called' = FALSE
                        /\ render_writes' = [p \in Pos(size[1], size[2]) |-> 0]
                        /\ ref_noise' = seed
                        /\ ref_copy' = unset
                        /\ ref_layer' = blank
                        /\ ref_sequence' = sequence_buffer
                        /\ UNCHANGED << environment, parts, created,
                                        sequence_buffer, position_buffer >>

\* what every greedy step leaves in the history
StepHistory(r, kind, tex) ==
    /\ step_called' = TRUE
    /\ step_failed' = (step_failed \/ ~r.ok)
    /\ empty_search' = (empty_search \/ (Applied(r) /\ ~HasEligible(kind, tex)))
    /\ work' = work \cup { "step" }

SlotWritten(r, index, phase) ==
    IF Applied(r) THEN [slot_writes EXCEPT ![index] = Append(@, phase)] ELSE slot_writes

\* where dispatch goes when a loop ends
AfterPhase1 == IF num_positions < HalfPixels THEN "phase2" ELSE "inverse"
AfterCopy == IF 0 < num_positions THEN "phase1" ELSE AfterPhase1
AfterInverse == IF HalfPixels < NumPixels THEN "phase3" ELSE "render"

\* initial sequence, first call of an iteration: a void is filled, no rank
Phase0Min(sched) ==
    /\ pc = "phase0_min"
    /\ \E r \in { dispatch_kernel(noise_texture, sequence_buffer, image_size,
                                   "min", 1, Maxu32, sched) },
          ref \in { dispatch_kernel(ref_noise, ref_sequence, image_size,
                                   "min", 1, Maxu32, "asc") } :
           /\ noise_texture' = r.texture
           /\ sequence_buffer' = r.sequence
           /\ position_buffer' = r.candidate
           /\ ref_noise' = ref.texture
           /\ ref_sequence' = ref.sequence
           /\ StepHistory(r, "min", noise_texture)
    /\ pc' = "phase0_max"
    /\ UNCHANGED << environment, parts, created, convolution_texture,
                    backward_texture, result, arguments, copy_texture, layer_texture,
                    noise_image, layer, step, slot_writes, render_writes, last_call,
                    ref_copy, ref_layer >>

\* initial sequence, second call of an iteration: a cluster pixel is removed
Phase0Max(sched) ==
    /\ pc = "phase0_max"
    /\ \E r \in { dispatch_kernel(noise_texture, sequence_buffer, image_size,
                                   "max", 0, Maxu32, sched) },
          ref \in { dispatch_kernel(ref_noise, ref_sequence, image_size,
                                   "max", 0, Maxu32, "asc") } :
           /\ noise_texture' = r.texture
           /\ sequence_buffer' = r.sequence
           /\ position_buffer' = r.candidate
           /\ ref_noise' = ref.texture
           /\ ref_sequence' = ref.sequence
           /\ StepHistory(r, "max", noise_texture)
    /\ step' = step + 1
    /\ pc' = IF step + 1 < num_positions THEN "phase0_min" ELSE "copy"
    /\ UNCHANGED << environment, parts, created, convolution_texture,
                    backward_texture, result, arguments, copy_texture, layer_texture,
                    noise_image, layer, slot_writes, render_writes, last_call, ref_copy,
                    ref_layer >>

\* a layer begins: device.copyTexture(copy_texture, noise_texture)
CopyTexture ==
    /\ pc = "copy"
    /\ copy_texture' = noise_texture
    /\ ref_copy' = ref_noise
    /\ slot_writes' = [k \in DOMAIN slot_writes |-> << >>]
    /\ step' = 0
    /\ pc' = AfterCopy
    /\ UNCHANGED << environment, parts, members, create_result, result,
                    arguments, noise_texture, layer_texture, noise_image, layer, work,
                    empty_search, step_failed, step_called, render_writes, last_call,
                    ref_noise, ref_layer, ref_sequence >>

\* Phase1 with the clusters removed from noise_texture itself
Phase1InPlace(sched) ==
    /\ pc = "phase1"
    /\ \E index \in { num_positions - step - 1 } :
       \E r \in { dispatch_kernel(noise_texture, sequence_buffer, image_size,
                                   "max", 0, index, sched) },
          ref \in { dispatch_kernel(ref_noise, ref_sequence, image_size,
                                   "max", 0, index, "asc") } :
           /\ noise_texture' = r.texture
           /\ sequence_buffer' = r.sequence
           /\ position_buffer' = r.candidate
           /\ ref_noise' = ref.texture
           /\ ref_sequence' = ref.sequence
           /\ slot_writes' = SlotWritten(r, index, 1)
           /\ StepHistory(r, "max", noise_texture)
    /\ step' = step + 1
    /\ pc' = IF step + 1 < num_positions THEN "phase1" ELSE AfterPhase1
    /\ UNCHANGED << environment, parts, created, convolution_texture,
                    backward_texture, result, arguments, copy_texture, layer_texture,
                    noise_image, layer, render_writes, last_call, ref_copy,
                    ref_layer >>

\* first phase: clusters are removed from copy_texture, ranks num_positions-1 .. 0
Phase1(sched) ==
    /\ pc = "phase1"
    /\ \E index \in { num_positions - step - 1 } :
       \E r \in { dispatch_kernel(copy_texture, sequence_buffer, image_size,
                                   "max", 0, index, sched) },
          ref \in { dispatch_kernel(ref_copy, ref_sequence, image_size,
                                   "max", 0, index, "asc") } :
           /\ copy_texture' = r.texture
           /\ sequence_buffer' = r.sequence
           /\ position_buffer' = r.candidate
           /\ ref_copy' = ref.texture
           /\ ref_sequence' = ref.sequence
           /\ slot_writes' = SlotWritten(r, index, 1)
           /\ StepHistory(r, "max", copy_texture)
    /\ step' = step + 1
    /\ pc' = IF step + 1 < num_positions THEN "phase1" ELSE AfterPhase1
    /\ UNCHANGED << environment, parts, created, convolution_texture,
                    backward_texture, result, arguments, noise_texture, layer_texture,
                    noise_image, layer, render_writes, last_call, ref_noise,
                    ref_layer >>

\* second phase: voids of noise_texture are filled, ranks num_positions .. half-1
Phase2(sched) ==
    /\ pc = "phase2"
    /\ \E index \in { max(step, num_positions) } :
       \E r \in { dispatch_kernel(noise_texture, sequence_buffer, image_size,
                                   "min", 1, index, sched) },
          ref \in { dispatch_kernel(ref_noise, ref_sequence, image_size,
                                   "min", 1, index, "asc") } :
           /\ noise_texture' = r.texture
           /\ sequence_buffer' = r.sequence
           /\ position_buffer' = r.candidate
           /\ ref_noise' = ref.texture
           /\ ref_sequence' = ref.sequence
           /\ slot_writes' = SlotWritten(r, index, 2)
           /\ StepHistory(r, "min", noise_texture)
           /\ step' = index + 1
           /\ pc' = IF index + 1 < HalfPixels THEN "phase2" ELSE "inverse"
    /\ UNCHANGED << environment, parts, created, convolution_texture,
                    backward_texture, result, arguments, copy_texture, layer_texture,
                    noise_image, layer, render_writes, last_call, ref_copy, ref_layer >>

\* third phase begins: copy_texture becomes the inverse of noise_texture
Inverse ==
    /\ pc = "inverse"
    /\ copy_texture' = IF GpuReady THEN InverseKernel(noise_texture) ELSE copy_texture
    /\ ref_copy' = IF GpuReady THEN InverseKernel(ref_noise) ELSE ref_copy
    /\ step' = HalfPixels
    /\ pc' = AfterInverse
    /\ UNCHANGED << environment, parts, members, create_result, result,
                    arguments, noise_texture, layer_texture, noise_image, layer, work,
                    history, last_call, ref_noise, ref_layer, ref_sequence >>

\* third phase: clusters are removed from copy_texture, ranks half .. num_pixels-1
Phase3(sched) ==
    /\ pc = "phase3"
    /\ \E r \in { dispatch_kernel(copy_texture, sequence_buffer, image_size,
                                   "max", 0, step, sched) },
          ref \in { dispatch_kernel(ref_copy, ref_sequence, image_size,
                                   "max", 0, step, "asc") } :
           /\ copy_texture' = r.texture
           /\ sequence_buffer' = r.sequence
           /\ position_buffer' = r.candidate
           /\ ref_copy' = ref.texture
           /\ ref_sequence' = ref.sequence
           /\ slot_writes' = SlotWritten(r, step, 3)
           /\ StepHistory(r, "max", copy_texture)
    /\ step' = step + 1
    /\ pc' = IF step + 1 < NumPixels THEN "phase3" ELSE "render"
    /\ UNCHANGED << environment, parts, created, convolution_texture,
                    backward_texture, result, arguments, noise_texture, layer_texture,
                    noise_image, layer, render_writes, last_call, ref_noise,
                    ref_layer >>

\* the ranks are rendered into layer_texture
Render(sched, fill) ==
    /\ pc = "render"
    /\ layer_texture' = IF GpuReady
                        THEN RenderKernel(layer_texture, sequence_buffer, image_size,
                                          sched, fill)
                        ELSE layer_texture
    /\ ref_layer' = IF GpuReady
                    THEN RenderKernel(ref_layer, ref_sequence, image_size,
                                      "asc", RefPosition)
                    ELSE ref_layer
    /\ render_writes' = IF GpuReady THEN RenderCount(sequence_buffer, image_size, fill)
                        ELSE [p \in DOMAIN render_writes |-> 0]
    /\ pc' = IF layer + 1 < num_layers THEN "layer" ELSE "get"
    /\ UNCHANGED << environment, parts, members, create_result, result,
                    arguments, noise_texture, copy_texture, noise_image, layer, step,
                    work, slot_writes, empty_search, step_failed, step_called,
                    last_call, ref_noise, ref_copy, ref_sequence >>

\* the seed of the next layer: layer_texture thresholded into noise_texture
NextLayer(fill) ==
    /\ pc = "layer"
    /\ noise_texture' = IF GpuReady
                        THEN LayerKernel(layer_texture, image_size,
                                         LayerThreshold(num_positions, NumPixels), fill)
                        ELSE noise_texture
    /\ ref_noise' = IF GpuReady
                    THEN LayerKernel(ref_layer, image_size,
                                     LayerThreshold(num_positions, NumPixels), RefValue)
                    ELSE ref_noise
    /\ pc' = "get"
    /\ UNCHANGED << environment, parts, members, create_result, result,
                    arguments, copy_texture, layer_texture, noise_image, layer, step,
                    work, history, last_call, ref_copy, ref_layer, ref_sequence >>

\* GetTexture with the next layer sent back to the initial sequence
GetTextureRestart ==
    /\ pc = "get"
    /\ noise_image' = [noise_image EXCEPT ![layer] = layer_texture]
    /\ layer' = layer + 1
    /\ pc' = IF layer + 1 < num_layers
             THEN (IF 0 < num_positions THEN "phase0_min" ELSE "copy")
             ELSE "done"
    /\ result' = IF layer + 1 < num_layers THEN result ELSE "image"
    /\ UNCHANGED << environment, parts, members, create_result, arguments,
                    noise_texture, copy_texture, layer_texture, step, work, history,
                    last_call, reference >>

\* device.finish and getTexture; after the last layer dispatch returns noise_image
GetTexture ==
    /\ pc = "get"
    /\ noise_image' = [noise_image EXCEPT ![layer] = layer_texture]
    /\ layer' = layer + 1
    /\ pc' = IF layer + 1 < num_layers THEN "copy" ELSE "done"
    /\ result' = IF layer + 1 < num_layers THEN result ELSE "image"
    /\ UNCHANGED << environment, parts, members, create_result, arguments,
                    noise_texture, copy_texture, layer_texture, step, work, history,
                    last_call, reference >>

\* sizes dispatchForward is called with
ForwardSizes == (1 .. MaxPixels) \X (1 .. MaxPixels)
PowersOfTwo == { 1, 2, 4, 8, 16 }

\* dispatchForward with the spectrum written to the member convolution_texture
dispatchForwardToMember(size) ==
    /\ pc \in { "idle", "done" }
    /\ last_call' = IF size[1] \in PowersOfTwo /\ size[2] \in PowersOfTwo
                    THEN "forward" ELSE "forward_invalid"
    /\ IF ~ispot(size[1]) \/ ~ispot(size[2])
       THEN result' = "empty" /\ work' = {} /\ UNCHANGED convolution_texture
       ELSE IF transform = Null \/ transform_fails
       THEN result' = "empty" /\ work' = { "texture" } /\ UNCHANGED convolution_texture
       ELSE /\ result' = "forward" /\ work' = { "texture", "transform" }
            /\ convolution_texture' =
                   [size |-> << size[1] \div 2 + 1, size[2] >>, kernel |-> NoSize]
    /\ UNCHANGED << environment, parts, created, backward_texture,
                    sequence_buffer, position_buffer, pc, locals, history, reference >>

\* BlueNoise::dispatchForward: the size check, two textures, one transform; the
\* spectrum goes to the caller and no member is written
dispatchForward(size) ==
    /\ pc \in { "idle", "done" }
    /\ last_call' = IF size[1] \in PowersOfTwo /\ size[2] \in PowersOfTwo
                    THEN "forward" ELSE "forward_invalid"
    /\ IF ~ispot(size[1]) \/ ~ispot(size[2])
       THEN result' = "empty" /\ work' = {}
       ELSE IF transform = Null \/ transform_fails
       THEN result' = "empty" /\ work' = { "texture" }
       ELSE result' = "forward" /\ work' = { "texture", "transform" }
    /\ UNCHANGED << environment, parts, members, create_result, pc, locals,
                    history, reference >>

Next ==
    \/ \E failure \in CreateFailures : create(failure)
    \/ /\ Calling
       /\ \E size \in CallSizes, layers \in 0 .. MaxLayers, kp \in KernelParams :
              dispatch(size, layers, kp)
    \/ \E sched \in Schedules : Phase0Min(sched)
    \/ \E sched \in Schedules : Phase0Max(sched)
    \/ CopyTexture
    \/ \E sched \in Schedules : Phase1(sched)
    \/ \E sched \in Schedules : Phase2(sched)
    \/ Inverse
    \/ \E sched \in Schedules : Phase3(sched)
    \/ \E sched \in Schedules, fill \in UninitPositions : Render(sched, fill)
    \/ \E fill \in UninitValues : NextLayer(fill)
    \/ GetTexture
    \/ /\ Calling
       /\ \E size \in ForwardSizes : dispatchForward(size)

\* the generator on a device that always executes the transforms
Spec == Init /\ [][Next]_vars

\* the generator on a device that can be lost at any moment
FaultNext == Next \/ TransformFails

FaultSpec == Init /\ [][FaultNext]_vars

\* a call of dispatch that asks for one layer more than the other calls do
dispatchDeep ==
    /\ Calling
    /\ \E size \in CallSizes, kp \in KernelParams :
           dispatch(size, MaxLayers + 1, kp)

\* the generator with the longer runs as well
DeepNext == Next \/ dispatchDeep

DeepSpec == Init /\ [][DeepNext]_vars

\* ------------------------------------------- the search kernels alone
\* padded sizes with fewer tiles than, as many tiles as and more tiles than the
\* position kernel's group has threads
SearchSizes == { << 8, 8 >>, << 16, 16 >>, << 32, 16 >> }

\* the first and the last pixel of every tile of the sample kernel
TileEnds(size) ==
    { << gx * SampleGroupSize + d, gy * SampleGroupSize + d >> :
        gx \in 0 .. udiv(size[1], SampleGroupSize) - 1,
        gy \in 0 .. udiv(size[2], SampleGroupSize) - 1,
        d \in { 0, SampleGroupSize - 1 } }

\* the first pixel of the tile whose candidate slot lies one stride of the
\* position kernel's scan after slot 0 (slot 0 itself when there are no more
\* tiles than the stride)
StridePixel(size) ==
    LET num_groups == udiv(size[1], SampleGroupSize)
        slot == PositionGroupSize % (num_groups * udiv(size[2], SampleGroupSize))
    IN  << (slot % num_groups) * SampleGroupSize, (slot \div num_groups) * SampleGroupSize >>

\* a pattern and energies that give the pixel top the highest weight; other says
\* whether a second eligible pixel is singled out: the first pixel with a lower
\* weight, or a pixel with the same weight (a tie), the last pixel or the stride
\* pixel; the rest is either eligible with the lowest weight or ineligible
SearchInput(kind, size, top, other, rest) ==
    LET first == << 0, 0 >>
        last == << size[1] - 1, size[2] - 1 >>
        tied(g) == \/ other = "tie" /\ g = last
                   \/ other = "stride" /\ g = StridePixel(size)
        weight(g) == IF g = top THEN 1
                     ELSE IF other = "lower" /\ g = first THEN -1
                     ELSE IF tied(g) THEN 1
                     ELSE -2
        eligible(g) == \/ g = top
                       \/ other = "lower" /\ g = first
                       \/ tied(g)
                       \/ rest = "eligible"
    IN  [kind |-> kind,
         size |-> size,
         pattern |-> [g \in Pos(size[1], size[2]) |->
                        IF eligible(g) = (kind = "max") THEN 1 ELSE 0],
         energy |-> [g \in Pos(size[1], size[2]) |->
                        IF kind = "max" THEN weight(g) ELSE -weight(g)]]

\* a created generator that is handed a padded pattern and its energies
SearchInit ==
    /\ modulo = "floor"
    /\ transform = "created" /\ kernels = "created" /\ buffers = "created"
    /\ sequence_buffer = [k \in 0 .. MaxPixels - 1 |-> Undef]
    /\ create_result = "true"
    /\ pc = "idle"
    /\ Uncalled
    /\ kernel_loop = NoKernel /\ Undriven
    /\ \E kind \in Kinds, size \in SearchSizes,
          other \in { "none", "lower", "tie", "stride" },
          rest \in { "eligible", "ineligible" } :
          \E top \in TileEnds(size) :
             search_input = SearchInput(kind, size, top, other, rest)

\* dispatch_kernel's two search kernels: the sample kernel over the tiles of the
\* pattern, then the position kernel over the tiles' candidates
SearchKernels(sched) ==
    /\ GpuReady
    /\ search_input # NoInput
    /\ position_buffer = NoCandidate
    /\ position_buffer' =
           Then(SampleStage(search_input.kind, search_input.pattern,
                            search_input.energy, search_input.size, sched),
                LAMBDA buf :
                    PositionStage(buf,
                        udiv(search_input.size[1], SampleGroupSize)
                            * udiv(search_input.size[2], SampleGroupSize),
                        sched))
    /\ UNCHANGED << environment, parts, created, convolution_texture,
                    backward_texture, sequence_buffer, pc, result, locals, work,
                    history, last_call, reference >>

SearchNext == \E sched \in Schedules : SearchKernels(sched)

SearchSpec == SearchInit /\ [][SearchNext]_vars

\* ------------------------------------------ dispatch, command by command
\* every variable of the generator and of the call in progress
generation == << environment, members, create_result, pc, result, locals, work,
                 history, last_call, reference >>

\* a created generator between two calls
Idle ==
    /\ modulo = "floor"
    /\ transform = "created" /\ kernels = "created" /\ buffers = "created"
    /\ sequence_buffer = [k \in 0 .. MaxPixels - 1 |-> Undef]
    /\ create_result = "true"
    /\ pc = "idle"
    /\ Uncalled

\* BlueNoise.h BatchSize (512), drawn from a range the short phases can exceed
BatchSizes == 1 .. MaxBatch

\* image sizes of the followed runs: the small ones, one wider than MinSize and
\* one that needs no upscale
DriveSizes == Sizes \cup { << MinSize + 1, 1 >>, << MinSize, MinSize >> }

\* create's working size, and the slots it allocates for sequence_buffer and for
\* position_buffer
CreateSize(size) ==
    << npot(max(size[1], MinSize)), npot(max(size[2], MinSize)) >>

SequenceSlots(size) == CreateSize(size)[1] * CreateSize(size)[2]

\* PositionSlots with one slot per thread group of the position kernel
PositionSlotsPerGroup(size) ==
    udiv(CreateSize(size)[1], PositionGroupSize)
        * udiv(CreateSize(size)[2], PositionGroupSize)

PositionSlots(size) ==
    udiv(CreateSize(size)[1], SampleGroupSize)
        * udiv(CreateSize(size)[2], SampleGroupSize)

\* the sample shader's slot for the work group (gx, gy)
TileSlot(gx, gy, num_groups) == num_groups * gy + gx

\* the rank of a command that writes no rank slot
NoRank == Maxu32

\* KernelStages with the filter pass writing the spectrum it read the kernel from
KernelStagesInPlace(texture, size, index) ==
    LET padded == PaddedSize(size)
        upscaled == size # padded
        noise == IF upscaled THEN "upscale_texture" ELSE texture
        num_groups == udiv(padded[1], SampleGroupSize)
        rows == udiv(padded[2], SampleGroupSize)
        cmd(stage, reads, writes, barrier, slots, rank) ==
            [stage |-> stage, reads |-> reads, writes |-> writes,
             barrier |-> barrier, slots |-> slots, rank |-> rank]
    IN  (IF upscaled
         THEN << cmd("upscale", { texture }, { "upscale_texture" },
                     { "upscale_texture" }, {}, NoRank) >>
         ELSE << >>)
        \o << cmd("forward", { noise }, { "forward_textures_0" }, {}, {}, NoRank),
              cmd("filter", { "forward_textures_0", "convolution_texture" },
                  { "convolution_texture" }, { "convolution_texture" }, {}, NoRank),
              cmd("backward", { "convolution_texture" }, { "backward_texture" }, {},
                  {}, NoRank),
              cmd("sample", { noise, "backward_texture" }, { "position_buffer" },
                  { "position_buffer" },
                  { TileSlot(gx, gy, num_groups) :
                        gx \in 0 .. num_groups - 1, gy \in 0 .. rows - 1 }, NoRank),
              cmd("position", { "position_buffer" }, { "position_buffer" },
                  { "position_buffer" }, 0 .. num_groups * rows - 1, NoRank),
              cmd("update", { "position_buffer" },
                  { texture } \cup (IF index # Maxu32 THEN { "sequence_buffer" } ELSE {}),
                  { texture }, { 0 }, index) >>

\* dispatch_kernel: the commands it records, in order: the stage, the resources
\* the stage reads and writes, the barrier that follows it, the slots of
\* position_buffer it touches and the rank slot it writes
KernelStages(texture, size, index) ==
    LET padded == PaddedSize(size)
        upscaled == size # padded
        noise == IF upscaled THEN "upscale_texture" ELSE texture
        num_groups == udiv(padded[1], SampleGroupSize)
        rows == udiv(padded[2], SampleGroupSize)
        cmd(stage, reads, writes, barrier, slots, rank) ==
            [stage |-> stage, reads |-> reads, writes |-> writes,
             barrier |-> barrier, slots |-> slots, rank |-> rank]
    IN  (IF upscaled
         THEN << cmd("upscale", { texture }, { "upscale_texture" },
                     { "upscale_texture" }, {}, NoRank) >>
         ELSE << >>)
        \o << cmd("forward", { noise }, { "forward_textures_0" }, {}, {}, NoRank),
              cmd("filter", { "forward_textures_0", "convolution_texture" },
                  { "forward_textures_1" }, { "forward_textures_1" }, {}, NoRank),
              cmd("backward", { "forward_textures_1" }, { "backward_texture" }, {},
                  {}, NoRank),
              cmd("sample", { noise, "backward_texture" }, { "position_buffer" },
                  { "position_buffer" },
                  { TileSlot(gx, gy, num_groups) :
                        gx \in 0 .. num_groups - 1, gy \in 0 .. rows - 1 }, NoRank),
              cmd("position", { "position_buffer" }, { "position_buffer" },
                  { "position_buffer" }, 0 .. num_groups * rows - 1, NoRank),
              cmd("update", { "position_buffer" },
                  { texture } \cup (IF index # Maxu32 THEN { "sequence_buffer" } ELSE {}),
                  { texture }, { 0 }, index) >>

\* the phases that are batched loops of dispatch_kernel calls
Loops == { "phase0", "phase1", "phase2", "phase3" }

\* for(i = First; i < Total;)
First(phase) ==
    CASE phase = "phase2" -> run_input.positions
      [] phase = "phase3" -> (run_input.size[1] * run_input.size[2]) \div 2
      [] OTHER -> 0

Total(phase) ==
    CASE phase = "phase2" -> (run_input.size[1] * run_input.size[2]) \div 2
      [] phase = "phase3" -> run_input.size[1] * run_input.size[2]
      [] OTHER -> run_input.positions

\* the dispatch_kernel calls of the loop body for the index i: the sample kernel,
\* the value written, the rank slot and the texture
Calls(phase, i) ==
    CASE phase = "phase0" -> << << "min", 1, Maxu32, "noise_texture" >>,
                                << "max", 0, Maxu32, "noise_texture" >> >>
      [] phase = "phase1" ->
             << << "max", 0, run_input.positions - i - 1, "copy_texture" >> >>
      [] phase = "phase2" -> << << "min", 1, i, "noise_texture" >> >>
      [] OTHER -> << << "max", 0, i, "copy_texture" >> >>

\* BatchEnd without the limit of the loop
BatchLimitOpen(i, batch, total) == i + batch

\* uint32_t end = min(i + BatchSize, total)
BatchLimit(i, batch, total) == min(i + batch, total)

\* the loop of the phase without batches: every index of the range, in order
RECURSIVE Unbatched(_, _, _)
Unbatched(phase, i, total) ==
    IF i >= total THEN << >> ELSE Calls(phase, i) \o Unbatched(phase, i + 1, total)

\* the command the current dispatch_kernel records next
CurrentCall == Calls(loop.phase, loop.i)[loop.call + 1]
CurrentStages == KernelStages(CurrentCall[4], run_input.size, CurrentCall[3])
CurrentCommand == CurrentStages[loop.stage]

\* a command is recorded; a Compute that ends with it is submitted
Record(cmd, submit) ==
    /\ hazards' = hazards \cup { << cmd.stage, r >> : r \in cmd.reads \cap unsynced }
    /\ unsynced' = IF submit THEN {} ELSE (unsynced \cup cmd.writes) \ cmd.barrier
    /\ inflight' = inflight \cup cmd.writes
    /\ accesses' = accesses \cup { << cmd.stage, r, "read" >> : r \in cmd.reads }
                            \cup { << cmd.stage, w, "write" >> : w \in cmd.writes }
    /\ kernel_writes' = kernel_writes
                            + (IF "convolution_texture" \in cmd.writes THEN 1 ELSE 0)

Command(stage, reads, writes, barrier) ==
    [stage |-> stage, reads |-> reads, writes |-> writes, barrier |-> barrier,
     slots |-> {}, rank |-> NoRank]

\* the runs that are followed: a size, the size create was given, the on pixels
\* of the seed, the layers and the batch size
DriveInit ==
    /\ Idle
    /\ search_input = NoInput /\ kernel_loop = NoKernel
    /\ \E size \in DriveSizes, layers \in 1 .. MaxLayers, batch \in BatchSizes :
       \E given \in { size, << 1, 1 >> },
          positions \in 0 .. min(size[1] * size[2], MaxPixels) :
             run_input = [size |-> size, created |-> given,
                          positions |-> positions, layers |-> layers,
                          batch |-> batch]
    /\ loop = [NoLoop EXCEPT !.phase = "kernel"]
    /\ issued = << >> /\ recorded = << >>
    /\ unsynced = {} /\ inflight = {} /\ hazards = {} /\ accesses = {}
    /\ kernel_writes = 0

\* the kernel image is transformed into convolution_texture, in a Compute of its own
Convolution ==
    /\ loop.phase = "kernel"
    /\ Record(Command("kernel", { "kernel_texture" }, { "convolution_texture" }, {}),
              TRUE)
    /\ loop' = [loop EXCEPT !.phase = "phase0", !.i = First("phase0")]
    /\ UNCHANGED << generation, search_input, kernel_loop, run_input, issued, recorded >>

\* Compute compute = device.createCompute(); the inner loop's limit
BatchBegin ==
    /\ loop.phase \in Loops /\ ~loop.open
    /\ loop.i < Total(loop.phase)
    /\ loop' = [loop EXCEPT !.open = TRUE,
                            !.end = BatchLimit(loop.i, run_input.batch,
                                               Total(loop.phase))]
    /\ UNCHANGED << generation, search_input, kernel_loop, run_input, issued, recorded,
                    unsynced, inflight, hazards, accesses, kernel_writes >>

\* a call of dispatch_kernel begins
StepBegin ==
    /\ loop.open /\ loop.stage = 0
    /\ loop.i < loop.end
    /\ issued' = Append(issued, CurrentCall)
    /\ recorded' = << >>
    /\ loop' = [loop EXCEPT !.stage = 1]
    /\ UNCHANGED << generation, search_input, kernel_loop, run_input, unsynced,
                    inflight, hazards, accesses, kernel_writes >>

\* dispatch_kernel records its next stage; after the last one the loop goes on
Stage ==
    /\ loop.stage >= 1
    /\ Record(CurrentCommand, FALSE)
    /\ recorded' = Append(recorded, CurrentCommand.stage)
    /\ loop' = IF loop.stage < Len(CurrentStages)
               THEN [loop EXCEPT !.stage = loop.stage + 1]
               ELSE IF loop.call + 1 < Len(Calls(loop.phase, loop.i))
               THEN [loop EXCEPT !.stage = 0, !.call = loop.call + 1]
               ELSE [loop EXCEPT !.stage = 0, !.call = 0, !.i = loop.i + 1]
    /\ UNCHANGED << generation, search_input, kernel_loop, run_input, issued >>

\* the batch's Compute ends and is submitted; device.flip, print_progress
BatchEnd ==
    /\ loop.open /\ loop.stage = 0
    /\ ~(loop.i < loop.end)
    /\ loop' = [loop EXCEPT !.open = FALSE]
    /\ unsynced' = {}
    /\ UNCHANGED << generation, search_input, kernel_loop, run_input, issued, recorded,
                    inflight, hazards, accesses, kernel_writes >>

\* a phase's loop ends
LoopEnd ==
    /\ loop.phase \in Loops /\ ~loop.open
    /\ ~(loop.i < Total(loop.phase))
    /\ loop' = CASE loop.phase = "phase0" -> [loop EXCEPT !.phase = "copy"]
                 [] loop.phase = "phase1" ->
                        [loop EXCEPT !.phase = "phase2", !.i = First("phase2")]
                 [] loop.phase = "phase2" -> [loop EXCEPT !.phase = "inverse"]
                 [] OTHER -> [loop EXCEPT !.phase = "render"]
    /\ issued' = << >>
    /\ UNCHANGED << generation, search_input, kernel_loop, run_input, recorded,
                    unsynced, inflight, hazards, accesses, kernel_writes >>

\* device.copyTexture(copy_texture, noise_texture)
CopyCommand ==
    /\ loop.phase = "copy"
    /\ Record(Command("copy", { "noise_texture" }, { "copy_texture" },
                      { "copy_texture" }), TRUE)
    /\ loop' = [loop EXCEPT !.phase = "phase1", !.i = First("phase1")]
    /\ UNCHANGED << generation, search_input, kernel_loop, run_input, issued, recorded >>

\* the inverse kernel, in a Compute of its own
InverseCommand ==
    /\ loop.phase = "inverse"
    /\ Record(Command("inverse", { "noise_texture" }, { "copy_texture" },
                      { "copy_texture" }), TRUE)
    /\ loop' = [loop EXCEPT !.phase = "phase3", !.i = First("phase3")]
    /\ UNCHANGED << generation, search_input, kernel_loop, run_input, issued, recorded >>

\* the render kernel, in a Compute of its own
RenderCommand ==
    /\ loop.phase = "render"
    /\ Record(Command("render", { "sequence_buffer" }, { "layer_texture" },
                      { "layer_texture" }), TRUE)
    /\ loop' = [loop EXCEPT !.phase = IF loop.l + 1 < run_input.layers
                                      THEN "layer" ELSE "finish"]
    /\ UNCHANGED << generation, search_input, kernel_loop, run_input, issued, recorded >>

\* the layer kernel, in a Compute of its own
LayerCommand ==
    /\ loop.phase = "layer"
    /\ Record(Command("layer", { "layer_texture" }, { "noise_texture" },
                      { "noise_texture" }), TRUE)
    /\ loop' = [loop EXCEPT !.phase = "finish"]
    /\ UNCHANGED << generation, search_input, kernel_loop, run_input, issued, recorded >>

\* device.finish()
Finish ==
    /\ loop.phase = "finish"
    /\ inflight' = {}
    /\ loop' = [loop EXCEPT !.phase = "get"]
    /\ UNCHANGED << generation, search_input, kernel_loop, run_input, issued, recorded,
                    unsynced, hazards, accesses, kernel_writes >>

\* device.getTexture(layer_texture, ...): the layer is read back
ReadBack ==
    /\ loop.phase = "get"
    /\ hazards' = hazards \cup { << "get", r >> : r \in { "layer_texture" } \cap inflight }
    /\ accesses' = accesses \cup { << "get", "layer_texture", "read" >> }
    /\ loop' = [loop EXCEPT !.l = loop.l + 1,
                            !.phase = IF loop.l + 1 < run_input.layers
                                      THEN "copy" ELSE "done"]
    /\ UNCHANGED << generation, search_input, kernel_loop, run_input, issued, recorded,
                    unsynced, inflight, kernel_writes >>

DriveNext ==
    \/ Convolution
    \/ BatchBegin
    \/ StepBegin
    \/ Stage
    \/ BatchEnd
    \/ LoopEnd
    \/ CopyCommand
    \/ InverseCommand
    \/ RenderCommand
    \/ LayerCommand
    \/ Finish
    \/ ReadBack

DriveSpec == DriveInit /\ [][DriveNext]_vars

\* the caller's thread is never held up for ever
DriveFairSpec == DriveSpec /\ WF_vars(DriveNext)

\* --------------------------------------------- the kernel image, cell by cell
\* the padded sizes whose kernel image is filled
KernelSizes == { MinSize, 2 * MinSize } \X { MinSize, 2 * MinSize }

\* Mirror counted from the size instead of the last cell
MirrorWrapped(x0, size) == (size - x0) % size

\* uint32_t x1 = npot_width - 1 - x0 (and y1 likewise)
Mirror(x0, size) == size - 1 - x0

\* kernel_sampler.set2D(x, y, ImageColor(k)) in the generation loop: k is
\* KernelWeight of the squared distance d, which is what is kept of it
Set2D(k, x, y, d) ==
    [k EXCEPT !.distance[<< x, y >>] = d, !.sets[<< x, y >>] = @ + 1]

\* dispatch is about to fill the kernel image of a padded size
KernelInit ==
    /\ Idle
    /\ search_input = NoInput /\ Undriven
    /\ \E size \in KernelSizes :
          kernel_loop = [size |-> size, stage |-> "fill", y0 |-> 0, x0 |-> 0,
                         distance |-> [c \in Pos(size[1], size[2]) |-> -1],
                         sets |-> [c \in Pos(size[1], size[2]) |-> 0],
                         scaled |-> {}]

\* one pass of the inner loop: the four cells of (x0, y0), then x0++, or y0++
\* with x0 back at 0, or the end of the loops
KernelCells ==
    /\ kernel_loop.stage = "fill"
    /\ LET x0 == kernel_loop.x0
           y0 == kernel_loop.y0
           x1 == Mirror(x0, kernel_loop.size[1])
           y1 == Mirror(y0, kernel_loop.size[2])
           dx0 == x0
           dx1 == dx0 + 1
           dy0 == y0
           dy1 == dy0 + 1
           d00 == dx0 * dx0 + dy0 * dy0
           d10 == dx1 * dx1 + dy0 * dy0
           d01 == dx0 * dx0 + dy1 * dy1
           d11 == dx1 * dx1 + dy1 * dy1
           filled == Set2D(Set2D(Set2D(Set2D(kernel_loop, x0, y0, d00),
                                       x1, y0, d10), x0, y1, d01), x1, y1, d11)
       IN  kernel_loop' =
               IF x0 + 1 < kernel_loop.size[1] \div 2
               THEN [filled EXCEPT !.x0 = x0 + 1]
               ELSE IF y0 + 1 < kernel_loop.size[2] \div 2
               THEN [filled EXCEPT !.x0 = 0, !.y0 = y0 + 1]
               ELSE [filled EXCEPT !.stage = "scale"]
    /\ UNCHANGED << generation, search_input, driver >>

\* the second pair of loops: every cell is read, multiplied by iweight and set
\* again; iweight > 0 keeps the order of the weights
KernelRescale ==
    /\ kernel_loop.stage = "scale"
    /\ kernel_loop' = [kernel_loop EXCEPT
                          !.stage = "done",
                          !.scaled = Pos(kernel_loop.size[1], kernel_loop.size[2])]
    /\ UNCHANGED << generation, search_input, driver >>

KernelNext == KernelCells \/ KernelRescale

KernelSpec == KernelInit /\ [][KernelNext]_vars

\* ------------------------------------------------------------ properties
\* create succeeded and % is the floored modulo: the generator at its best
Sound == create_result = "true" /\ modulo = "floor"

Slots == 0 .. NumPixels - 1

\* every pixel of the image is recorded in exactly one rank slot
Bijective(seq) ==
    \A p \in Pos(image_size[1], image_size[2]) :
        Cardinality({ k \in Slots : seq[k] = p }) = 1

\* C1: rank bijection.  When phases 1-3 of a layer have finished, every rank slot
\* 0 .. pixelCount-1 has been written exactly once during the layer and the
\* recorded positions are pairwise distinct positions of the image.
RankBijection ==
    (Sound /\ pc = "render") =>
        /\ \A k \in Slots : Len(slot_writes[k]) = 1
        /\ \A k \in Slots : sequence_buffer[k] # Undef
        /\ \A k \in Slots : InTexture(sequence_buffer[k], image_size)
        /\ \A j, k \in Slots : j # k => sequence_buffer[j] # sequence_buffer[k]

\* C2: monotonic phase boundaries.  In every layer Phase 1 writes exactly the
\* slots [0, P), Phase 2 exactly [P, pixelCount/2) and Phase 3 exactly
\* [pixelCount/2, pixelCount), each slot once.
PhaseBoundaries ==
    (Sound /\ pc = "render") =>
        \A k \in Slots :
            slot_writes[k] = IF k < num_positions THEN << 1 >>
                             ELSE IF k < HalfPixels THEN << 2 >>
                             ELSE << 3 >>

\* C3: Phase 0 conserves the on-pixel count.  After every completed pair of
\* Phase 0 steps, and when Phase 0 has ended, the pattern has exactly the P on
\* pixels of the seed.
Phase0Conserves ==
    (Sound /\ layer = 0 /\ pc \in { "phase0_min", "copy" }) =>
        NumOn(noise_texture) = num_positions

\* C4: the driver never searches a pattern without an eligible pixel: no
\* cluster search on a pattern with no pixel on, no void search on a pattern
\* with no pixel off, in any phase of any layer.
NoEmptySearch == Sound => ~empty_search

\* C5: deterministic reproducibility.  A second run from the same seed, size,
\* layer count, sigma and epsilon, whatever the order of its threads, has the
\* same rank sequence as this one at every step.
Reproducible ==
    (Sound /\ pc \notin { "new", "idle" }) => sequence_buffer = ref_sequence

\* C6: normalized output.  The render step stores to every pixel of the layer
\* exactly once, and the value at a pixel is r / (pixelCount - 1) for the one
\* rank r recorded at that pixel; nothing is left over from before.
RenderComplete ==
    (Sound /\ pc \in { "layer", "get" }) =>
        \A p \in Pos(image_size[1], image_size[2]) :
            /\ render_writes[p] = 1
            /\ \E k \in Slots : /\ sequence_buffer[k] = p
                                /\ layer_texture[p] = RenderValue(k, image_size)

\* C7: threshold idempotence.  When the ranks of a rendered layer form a
\* bijection, the pattern thresholded from it for the next layer has P on pixels
\* within one pixel, for every P.
ThresholdIdempotent ==
    (pc = "get" /\ layer + 1 < num_layers /\ GpuReady /\ Bijective(sequence_buffer)) =>
        /\ NumOn(noise_texture) - num_positions <= 1
        /\ num_positions - NumOn(noise_texture) <= 1

\* a four pixel layer with a bijective rank sequence was thresholded for a seed
\* of one on pixel, and one pixel is on
ThresholdIdempotentWitness ==
    /\ pc = "get" /\ layer + 1 < num_layers /\ GpuReady /\ Bijective(sequence_buffer)
    /\ NumPixels = 4 /\ num_positions = 1
    /\ NumOn(noise_texture) = 1

\* C8: all or nothing.  dispatch never returns a non-empty noise image for a run
\* in which a dispatch_kernel reported failure.
AllOrNothing == result = "image" => ~step_failed

\* C9: creation failure blocks generation.  After a create that returned false
\* no dispatch calls dispatch_kernel or returns a non-empty image.
CreateBlocks ==
    create_result = "false" => (~step_called /\ result # "image")

\* C10: invalid sizes are rejected before any work.  A dispatch with width 0,
\* height 0 or 0 layers, and a dispatchForward with a width or height that is
\* not a power of two, return the empty image, create and dispatch nothing and
\* leave the generator and the caller's position as they were.
InvalidRejected ==
    [][ last_call' \in { "dispatch_invalid", "forward_invalid" } =>
            /\ result' = "empty"
            /\ work' = {}
            /\ UNCHANGED << members, create_result, pc, locals, history >> ]_vars

\* a generator that has generated two layers was then asked for no layers, or
\* for an empty image, and answered with the empty image
InvalidRejectedWitness ==
    /\ last_call = "dispatch_invalid"
    /\ pc = "done" /\ layer = 2
    /\ result = "empty" /\ work = {}
    /\ noise_image[1] = layer_texture

\* C11 as stated: a dispatch with an image narrower or lower than MinSize
\* returns the empty image, allocates nothing and runs no step.
SmallImageRejected ==
    (last_call = "dispatch" /\ create_result = "true"
        /\ (image_size[1] < MinSize \/ image_size[2] < MinSize)) =>
        (result = "empty" /\ work = {} /\ ~step_called)

\* C11: a dispatch with width >= 1, height >= 1 and layers >= 1 on a generator
\* with a transform is accepted whatever the size of the image: generation
\* starts at the logical size, on a working size padded up to at least MinSize
\* in each dimension.
SmallImageAccepted ==
    [][ (pc = "idle" /\ last_call' = "dispatch" /\ transform # Null) =>
            /\ pc' \in { "phase0_min", "copy" }
            /\ image_size'[1] >= 1 /\ image_size'[2] >= 1 /\ num_layers' >= 1
            /\ backward_texture'[1] >= max(MinSize, image_size'[1])
            /\ backward_texture'[2] >= max(MinSize, image_size'[2])
            /\ "transform" \in work' ]_vars

\* a 2 x 2 image, smaller than MinSize, was generated on the padded working size
SmallImageAcceptedWitness ==
    /\ last_call = "dispatch" /\ result = "image"
    /\ image_size = << 2, 2 >> /\ image_size[1] < MinSize
    /\ backward_texture = << MinSize, MinSize >>

\* C12: dispatchForward is read-only for generation.  A call of dispatchForward,
\* accepted or rejected, leaves every member of the generator (the transform, the
\* kernels, the frequency-domain kernel in convolution_texture, the rank sequence
\* buffer, the candidate buffer), the pattern and the other textures and images
\* of the generation run, and the run's position as they were.
ForwardReadOnly ==
    [][ last_call' \in { "forward", "forward_invalid" } =>
            UNCHANGED << members, create_result, pc, locals, history, reference >> ]_vars

\* a spectrum was computed after a generation run that recorded ranks, and the
\* run's sequence, candidate, kernel and image are still there
ForwardReadOnlyWitness ==
    /\ last_call = "forward" /\ result = "forward"
    /\ pc = "done" /\ layer = 1 /\ GpuReady
    /\ sequence_buffer[0] # Undef /\ position_buffer # NoCandidate
    /\ convolution_texture.kernel \in KernelParams
    /\ noise_image[0] = layer_texture

\* the kind of search the step at pc runs (the min or the max sample kernel) and
\* the texture it searches
Stepping == pc \in { "phase0_min", "phase0_max", "phase1", "phase2", "phase3" }
StepKind == IF pc \in { "phase0_min", "phase2" } THEN "min" ELSE "max"
StepTexture == IF pc \in { "phase1", "phase3" } THEN copy_texture ELSE noise_texture
StepPattern == Upscale(StepTexture, image_size, PaddedSize(image_size), modulo)
StepEnergy == Energy(StepTexture, image_size, convolution_texture.kernel, modulo)

\* a greedy step whose kernels and transforms run, on a pattern with a pixel the
\* search may select
Searching ==
    /\ Stepping /\ GpuReady /\ ~transform_fails /\ ~transform_fails'
    /\ HasEligible(StepKind, StepTexture)

\* C13 as stated: the cluster search (the step that turns a pixel off) selects the
\* on pixel that maximizes -energy, the void search (the step that turns a pixel
\* on) the off pixel that maximizes +energy.
PolicyAsStated ==
    [][ Searching =>
            LET U == StepPattern
                E == StepEnergy
                winner == position_buffer'.pos
            IN  IF StepKind = "max"
                THEN /\ U[winner] = 1
                     /\ \A q \in DOMAIN U : U[q] = 1 => -E[q] <= -E[winner]
                ELSE /\ U[winner] = 0
                     /\ \A q \in DOMAIN U : U[q] = 0 => E[q] <= E[winner] ]_vars

\* C13: search policy asymmetry.  The cluster search (max sample kernel, the step
\* that turns a pixel off) selects, among the pixels that are on, one of maximal
\* energy, its weight the energy; the void search (min sample kernel, the step
\* that turns a pixel on) selects, among the pixels that are off, one of minimal
\* energy, its weight the negated energy.
SearchPolicy ==
    [][ Searching =>
            LET U == StepPattern
                E == StepEnergy
                winner == position_buffer'.pos
            IN  IF StepKind = "max"
                THEN /\ U[winner] = 1
                     /\ position_buffer'.weight = E[winner]
                     /\ \A q \in DOMAIN U : U[q] = 1 => E[q] <= E[winner]
                ELSE /\ U[winner] = 0
                     /\ position_buffer'.weight = -E[winner]
                     /\ \A q \in DOMAIN U : U[q] = 0 => -E[q] <= -E[winner] ]_vars

\* a cluster search has chosen between on pixels of different energy, and a void
\* search between off pixels of different energy
SearchPolicyWitness ==
    /\ pc = "phase3" /\ GpuReady /\ NumPixels = 4
    /\ \E p, q \in DOMAIN StepPattern :
           /\ StepPattern[p] = 1 /\ StepPattern[q] = 1
           /\ StepEnergy[p] # StepEnergy[q]
    /\ position_buffer # NoCandidate

\* the weight the sample kernel gives the pixel g of the search input
InputWeight(g) ==
    SampleWeight(search_input.kind, search_input.pattern[g], search_input.energy[g])

\* C14: the two-stage reduction equals the global arg-max.  For weights with at
\* least one eligible pixel and for fewer tiles than, as many tiles as and more
\* tiles than the position kernel's group has threads, the candidate left in slot
\* 0 is an eligible pixel whose weight is the maximum weight over all pixels of
\* the padded image.
TwoStageArgMax ==
    (search_input # NoInput /\ position_buffer # NoCandidate) =>
        LET pixels == DOMAIN search_input.pattern
            winner == position_buffer.pos
        IN  (\E g \in pixels : Eligible(search_input.kind, search_input.pattern[g])) =>
                /\ winner \in pixels
                /\ Eligible(search_input.kind, search_input.pattern[winner])
                /\ position_buffer.weight = InputWeight(winner)
                /\ \A g \in pixels : InputWeight(g) <= position_buffer.weight

\* with 32 tiles for 16 threads, the only eligible pixel, in the last tile, won
TwoStageArgMaxWitness ==
    /\ search_input # NoInput /\ search_input.size = << 32, 16 >>
    /\ Cardinality({ g \in DOMAIN search_input.pattern :
                       Eligible(search_input.kind, search_input.pattern[g]) }) = 1
    /\ position_buffer.pos = << 31, 15 >>
    /\ position_buffer.weight = 1

\* C15: Phase 0 step order.  In every swap-pair the cluster pixel is removed
\* first and the void filled second: between the two steps of a pair the pattern
\* has P - 1 pixels on.
Phase0ClusterFirst ==
    (Sound /\ layer = 0 /\ pc = "phase0_max") =>
        NumOn(noise_texture) = num_positions - 1

\* C16 as stated: every layer after the first begins with Phase 0 on its newly
\* thresholded seed.
LayerRestartsPhase0 ==
    [][ (pc = "get" /\ layer + 1 < num_layers /\ num_positions > 0) =>
            pc' = "phase0_min" ]_vars

\* the order in which dispatch passes through the stages of a layer
LayerOrder ==
    { << "get", "copy" >>, << "copy", "phase1" >>, << "copy", "phase2" >>,
      << "copy", "inverse" >>, << "phase1", "phase2" >>, << "phase1", "inverse" >>,
      << "phase2", "inverse" >>, << "inverse", "phase3" >>, << "inverse", "render" >>,
      << "phase3", "render" >>, << "render", "layer" >>, << "render", "get" >>,
      << "layer", "get" >>, << "get", "done" >> }

\* C16: layer chaining.  Phase 0 runs only before the first layer; every layer
\* after the first goes from its thresholded seed straight to the copy and
\* Phase 1, then through Phases 1, 2 and 3 in this order, to the render.
LayerChaining ==
    [][ /\ (pc = "get" /\ layer + 1 < num_layers) => pc' = "copy"
        /\ pc' \in { "phase0_min", "phase0_max" } => layer' = 0
        /\ (layer' > 0 /\ pc' # pc) => << pc, pc' >> \in LayerOrder ]_vars

\* the second layer of a run with a seed of one on pixel is in its Phase 1
LayerChainingWitness ==
    /\ layer = 1 /\ pc = "phase1" /\ num_positions = 1 /\ GpuReady
    /\ noise_image[0] # Undef

\* the pixels that are on in a pattern, and the positions recorded in the rank
\* slots a .. b
OnPixels(tex) == { p \in DOMAIN tex : tex[p] = 1 }
Ranked(a, b) == { sequence_buffer[k] : k \in a .. b }

Phase3Slots == { k \in Slots : \E n \in 1 .. Len(slot_writes[k]) : slot_writes[k][n] = 3 }

\* C19: Phase 3 on the complement.  Phase 3 starts on the inverse of the pattern
\* Phase 2 left; it runs exactly pixelCount/2 removals, each of a pixel that is
\* on in the inverted pattern, that is off in the pattern Phase 2 left; and when
\* it has ended the inverted pattern has no pixel on.  For every accepted size,
\* odd pixel counts included.
Phase3OnComplement ==
    /\ []((Sound /\ pc = "phase3" /\ step = HalfPixels) =>
              copy_texture = InverseKernel(noise_texture))
    /\ [][ (Sound /\ pc = "phase3") =>
               /\ noise_texture[sequence_buffer'[step]] = 0
               /\ copy_texture[sequence_buffer'[step]] = 1 ]_vars
    /\ []((Sound /\ pc = "render") =>
              /\ Cardinality(Phase3Slots) = HalfPixels
              /\ NumOn(copy_texture) = 0)

\* C20: resizer range.  For the logical size of a run and its padded size, the
\* remap takes every padded position to a position inside the logical image, and
\* every position recorded in the rank sequence lies inside the logical image.
ResizerRange ==
    (create_result = "true" /\ pc \notin { "new", "idle" } /\ image_size # NoSize) =>
        /\ \A g \in Pos(backward_texture[1], backward_texture[2]) :
               InTexture(Remap(g, backward_texture, image_size, modulo), image_size)
        /\ \A k \in Slots :
               sequence_buffer[k] # Undef => InTexture(sequence_buffer[k], image_size)

\* C21: resizer symmetry.  Every logical pixel is the image of a padded
\* coordinate; and on every greedy step that has an eligible pixel the winner's
\* padded coordinate is remapped, by the update stage, to a pixel of the image
\* whose state is the state the upscale stage placed at the winner, which is an
\* eligible state, and that pixel holds the step's value afterwards.
ResizerSymmetry ==
    /\ []((create_result = "true" /\ pc \notin { "new", "idle" }
              /\ image_size # NoSize) =>
             \A q \in Pos(image_size[1], image_size[2]) :
                 \E g \in Pos(backward_texture[1], backward_texture[2]) :
                     Remap(g, backward_texture, image_size, modulo) = q)
    /\ [][ Searching =>
               LET position == UpdatePosition(position_buffer', image_size, modulo)
                   after == IF pc \in { "phase1", "phase3" }
                            THEN copy_texture' ELSE noise_texture'
               IN  /\ InTexture(position, image_size)
                   /\ StepPattern[position_buffer'.pos] = StepTexture[position]
                   /\ Eligible(StepKind, StepTexture[position])
                   /\ after[position] = (IF StepKind = "min" THEN 1 ELSE 0) ]_vars

\* the stages of one greedy step, in the order of the claim
StageOrder ==
    << "upscale", "forward", "filter", "backward", "sample", "position", "update" >>

BatchingTransparent ==
    /\ [](loop.phase \in Loops =>
            LET whole == Unbatched(loop.phase, First(loop.phase), Total(loop.phase))
            IN  /\ Len(issued) <= Len(whole)
                /\ \A k \in 1 .. Len(issued) : issued[k] = whole[k]
                /\ (~loop.open /\ ~(loop.i < Total(loop.phase))) => issued = whole)
    /\ <>(loop.phase = "done")

\* the five steps of the third phase of a nine pixel image were issued in three
\* batches of at most two
BatchingTransparentWitness ==
    /\ loop.phase = "phase3" /\ ~loop.open /\ loop.i = Total("phase3")
    /\ run_input.batch = 2 /\ run_input.size = << MinSize + 1, 1 >>
    /\ Len(issued) = 5
    /\ issued[5] = << "max", 0, MinSize, "copy_texture" >>

\* C26: the frequency-domain kernel is immutable during generation.  Within one
\* dispatch the convolution texture is written exactly once, by the transform of
\* the kernel image before the first greedy step; no stage of any step of any
\* phase or layer writes it, and the only stage that reads it is the filter.
KernelImmutable ==
    /\ loop.phase = "kernel" => (kernel_writes = 0 /\ issued = << >> /\ accesses = {})
    /\ loop.phase \notin { "off", "kernel" } => kernel_writes = 1
    /\ \A a \in accesses :
           a[2] = "convolution_texture" =>
               \/ a = << "kernel", "convolution_texture", "write" >>
               \/ a = << "filter", "convolution_texture", "read" >>
    /\ (loop.phase \in Loops /\ loop.open /\ loop.stage > 0 /\ loop.stage <= Len(CurrentStages)) =>
           /\ "convolution_texture" \notin CurrentCommand.writes
           /\ "convolution_texture" \in CurrentCommand.reads => CurrentCommand.stage = "filter"

\* a step of the second layer has read the kernel in its filter stage
KernelImmutableWitness ==
    /\ loop.l = 1 /\ loop.phase = "phase2" /\ loop.open
    /\ Len(recorded) >= 3
    /\ << "filter", "convolution_texture", "read" >> \in accesses
    /\ kernel_writes = 1

\* the next command of the batch that is open, if there is one
Recording ==
    /\ loop.phase \in Loops /\ loop.open
    /\ loop.stage >= 1 /\ loop.stage <= Len(CurrentStages)

\* C29: buffer bounds.  When dispatch is given an image of the width and height
\* that were passed to create, every rank slot a step writes is below the number
\* of slots create allocated for sequence_buffer, every slot of position_buffer
\* the sample, position and update kernels touch is below the number of slots
\* allocated for it, and the steps of phase 0, called with the no-rank marker,
\* never write sequence_buffer.
BufferBounds ==
    (Recording /\ run_input.created = run_input.size) =>
        /\ \A slot \in CurrentCommand.slots :
               slot >= 0 /\ slot < PositionSlots(run_input.created)
        /\ "sequence_buffer" \in CurrentCommand.writes =>
               /\ CurrentCommand.rank # NoRank
               /\ CurrentCommand.rank >= 0
               /\ CurrentCommand.rank < SequenceSlots(run_input.created)
        /\ CurrentCommand.rank # NoRank => "sequence_buffer" \in CurrentCommand.writes
        /\ loop.phase = "phase0" =>
               /\ CurrentCall[3] = NoRank
               /\ "sequence_buffer" \notin CurrentCommand.writes

\* the last step of a nine pixel image, padded to eight tiles, writes rank slot
\* eight after its search went through all eight candidate slots
BufferBoundsWitness ==
    /\ Recording /\ run_input.created = run_input.size
    /\ run_input.size = << MinSize + 1, 1 >>
    /\ loop.phase = "phase3" /\ CurrentCommand.stage = "update"
    /\ CurrentCommand.rank = MinSize
    /\ "sequence_buffer" \in CurrentCommand.writes
    /\ PositionSlots(run_input.created) = 8
    /\ "position" \in { recorded[k] : k \in 1 .. Len(recorded) }

\* the pixels of the sample kernel's work group (gx, gy)
TilePixels(gx, gy) ==
    { << gx * SampleGroupSize + dx, gy * SampleGroupSize + dy >> :
        dx \in 0 .. SampleGroupSize - 1, dy \in 0 .. SampleGroupSize - 1 }

\* C24: the tree reduction is race-free between barriers.  In every round of the
\* tile-local reduction and of the global reduction no cell of the shared arrays
\* that one thread writes is read or written by another thread, every cell a
\* thread accesses is inside the arrays, and the tiles write their candidates to
\* slots of their own inside the candidate buffer: no two tiles share a slot, and
\* the candidate in a tile's slot is a pixel of that tile.
ReductionRaceFree ==
    (search_input # NoInput /\ position_buffer # NoCandidate) =>
        /\ \A n \in { SampleGroupSize * SampleGroupSize, PositionGroupSize } :
           \A offset \in ReduceOffsets(n, 1) :
           \A t \in 0 .. n - 1 :
               /\ ReduceReads(n, offset, t) \cup ReduceWrites(n, offset, t) \subseteq 0 .. n - 1
               /\ \A u \in (0 .. n - 1) \ { t } :
                      ReduceWrites(n, offset, t)
                          \cap (ReduceReads(n, offset, u) \cup ReduceWrites(n, offset, u)) = {}
        /\ \E num_groups \in { udiv(search_input.size[1], SampleGroupSize) },
              rows \in { udiv(search_input.size[2], SampleGroupSize) } :
              /\ \A gx \in 0 .. num_groups - 1, gy \in 0 .. rows - 1 :
                     /\ TileSlot(gx, gy, num_groups) \in 0 .. num_groups * rows - 1
                     /\ \A hx \in 0 .. num_groups - 1, hy \in 0 .. rows - 1 :
                            TileSlot(hx, hy, num_groups) = TileSlot(gx, gy, num_groups)
                                => << hx, hy >> = << gx, gy >>
              /\ \A sched \in Schedules :
                 \E buf \in { SampleStage(search_input.kind, search_input.pattern,
                                          search_input.energy, search_input.size, sched) } :
                     \A gx \in 0 .. num_groups - 1, gy \in 0 .. rows - 1 :
                         /\ TileSlot(gx, gy, num_groups) \in DOMAIN buf
                         /\ buf[TileSlot(gx, gy, num_groups)].pos \in TilePixels(gx, gy)

\* both kernels ran on a pattern of eight by four tiles, more candidates than the
\* position kernel has threads, and the winner came out of the last tile
ReductionRaceFreeWitness ==
    /\ search_input # NoInput /\ position_buffer # NoCandidate
    /\ search_input.size = << 32, 16 >>
    /\ position_buffer.pos = << 31, 15 >>
    /\ ReduceWrites(PositionGroupSize, 8, 0) = { 0 }
    /\ ReduceReads(PositionGroupSize, 8, 0) = { 0, 8 }

\* gl_LocalInvocationIndex of the pixel g in its tile: row-major
LocalIndex(g) ==
    (g[2] % SampleGroupSize) * SampleGroupSize + (g[1] % SampleGroupSize)

\* of the pixels of the tile (gx, gy) that have the tile's maximum weight, the
\* one with the lowest local invocation index
TileFirst(gx, gy) ==
    CHOOSE g \in TilePixels(gx, gy) :
        \A h \in TilePixels(gx, gy) :
            \/ InputWeight(h) < InputWeight(g)
            \/ InputWeight(h) = InputWeight(g) /\ LocalIndex(g) <= LocalIndex(h)

\* of the candidates cand that have the maximum weight, the slot with the lowest
\* remainder modulo the position kernel's group size and, among those, the lowest
SlotFirst(cand) ==
    CHOOSE slot \in DOMAIN cand :
        \A other \in DOMAIN cand :
            \/ InputWeight(cand[other]) < InputWeight(cand[slot])
            \/ /\ InputWeight(cand[other]) = InputWeight(cand[slot])
               /\ \/ slot % PositionGroupSize < other % PositionGroupSize
                  \/ /\ slot % PositionGroupSize = other % PositionGroupSize
                     /\ slot <= other

\* C25: tie-break.  Of the pixels of a tile that share the tile's maximum weight
\* the sample kernel leaves the one with the lowest local invocation index in
\* the tile's slot; of the candidates that share the global maximum weight the
\* position kernel leaves in slot 0 the one whose slot index has the lowest
\* remainder modulo the group size and, among those, is lowest; the order in
\* which the threads run between barriers changes neither.
TieBreak ==
    (search_input # NoInput /\ position_buffer # NoCandidate) =>
        \E num_groups \in { udiv(search_input.size[1], SampleGroupSize) },
           rows \in { udiv(search_input.size[2], SampleGroupSize) } :
        \E cand \in { Stored([slot \in 0 .. num_groups * rows - 1 |->
                              TileFirst(slot % num_groups, slot \div num_groups)]) } :
           /\ \A sched \in Schedules :
              \E buf \in { SampleStage(search_input.kind, search_input.pattern,
                                       search_input.energy, search_input.size, sched) } :
                  \A gx \in 0 .. num_groups - 1, gy \in 0 .. rows - 1 :
                      buf[TileSlot(gx, gy, num_groups)].pos = TileFirst(gx, gy)
           /\ position_buffer.pos = cand[SlotFirst(cand)]

\* thirty-two tiles for sixteen threads: the tile of slot 15 and the tile of
\* slot 16 both hold the maximum weight, and the candidate of slot 16 won
TieBreakWitness ==
    /\ search_input # NoInput /\ position_buffer # NoCandidate
    /\ search_input.size = << 32, 16 >>
    /\ position_buffer.pos = << 0, 8 >>
    /\ StridePixel(search_input.size) = << 0, 8 >>
    /\ InputWeight(<< 0, 8 >>) = 1
    /\ \E g \in TilePixels(7, 1) : InputWeight(g) = 1

\* C27: seed of the next layer.  The pattern thresholded for layer l+1 has the
\* pixel q on exactly when the point-reflected pixel of layer l has one of the P
\* highest ranks, that is a rank r from pixelCount - P upwards, which is what
\* 1 - r/(pixelCount-1) < P/pixelCount selects; every pixel of the pattern is
\* written, so nothing of the Phase 2 pattern survives.
NextLayerSeed ==
    (Sound /\ pc = "get" /\ layer + 1 < num_layers) =>
        \A q \in Pos(image_size[1], image_size[2]) :
            \E r \in Slots :
                /\ sequence_buffer[r] = << image_size[1] - 1 - q[1], image_size[2] - 1 - q[2] >>
                /\ noise_texture[q] = (IF r >= NumPixels - num_positions THEN 1 ELSE 0)
                /\ noise_texture[q] =
                       LayerValue(RenderValue(r, image_size),
                                  LayerThreshold(num_positions, NumPixels))

====
